---- MODULE Spec2Model ----
(***************************************************************************)
(* Model of climatecontrol/settings_parser.py: the nested merger           *)
(* (update_nested), the subtree filter (subtree), the environment          *)
(* decomposer (parse_env_vars, build_env_var) and the construction of      *)
(* Settings (Settings.__init__ / build_settings_map).                      *)
(*                                                                         *)
(* Python values are records [tag, val, kids]:                             *)
(*   tag = "dict"  : a mapping, kids is the function key -> value          *)
(*   tag = "str"   : a string, val is its text                             *)
(*   tag = "None"  : None                                                  *)
(*   tag = "int"   : an integer (val is its decimal text)                  *)
(*   tag = "raise" : the call did not return; val names the exception      *)
(* Strings that the code takes apart (environment variable names, the      *)
(* prefix) are sequences of one-character strings; Str turns such a        *)
(* sequence into the string used as a dictionary key.                      *)
(***************************************************************************)
EXTENDS Integers, Sequences, FiniteSets, TLC

VARIABLES
    pc,                 \* position of the call / of Settings.__init__
    data,               \* subtree: argument data
    filters,            \* subtree: argument filters
    parent_hierarchy,   \* subtree: argument parent_hierarchy
    d,                  \* update_nested: argument d
    u,                  \* update_nested: argument u
    environ,            \* os.environ: sequence of [name, value], in iteration order
    call,               \* parse_env_vars: the other arguments
    ret,                \* [out |-> returned value or raise, log |-> warnings emitted]
    args,               \* Settings.__init__: the constructor arguments
    disk,               \* what the toml reader yields for the resolved settings file
    self,               \* the fields of the Settings instance
    env_map,            \* result of self.parse_env_vars()
    file_map,           \* result of self.read_file()
    settings_map,       \* local settings_map of build_settings_map
    io                  \* reads of the environment and of the file, calls of the parser

vars == <<pc, data, filters, parent_hierarchy, d, u, environ, call, ret, args, disk,
          self, env_map, file_map, settings_map, io>>

---------------------------------------------------------------------------
(* Bounds of the explored inputs *)

\* number of leaves of a generated nested map
MaxLeaves == 2
\* number of entries of a mapping filter or of a collection filter
MaxFilterLen == 2
\* number of variables in the environment
MaxVars == 2

---------------------------------------------------------------------------
(* Python values *)

NoKids == [k \in {} |-> TRUE]

PyStr(s) == [tag |-> "str", val |-> s, kids |-> NoKids]
PyDict(f) == [tag |-> "dict", val |-> "", kids |-> f]
PyInt(s) == [tag |-> "int", val |-> s, kids |-> NoKids]
PyNone == [tag |-> "None", val |-> "", kids |-> NoKids]
EmptyDict == PyDict(NoKids)
Raise(e) == [tag |-> "raise", val |-> e, kids |-> NoKids]

IsDict(v) == v.tag = "dict"
IsStr(v) == v.tag = "str"
IsRaise(v) == v.tag = "raise"
Keys(v) == DOMAIN v.kids

\* no state of a call that is not in progress
Idle == PyNone

---------------------------------------------------------------------------
(* update_nested *)

\* the exception raised when the items of u disagree on it: which one is
\* raised depends on which item the dictionary yields first
EitherError(es) ==
    IF Cardinality(es) = 1 THEN CHOOSE e \in es : TRUE ELSE "AttributeError|TypeError"

RECURSIVE update_nested(_, _)
update_nested(dd, uu) ==
    IF ~IsDict(uu) THEN Raise("AttributeError")            \* u.items()
    ELSE IF Keys(uu) = {} THEN dd                          \* the loop body never runs
    ELSE IF ~IsDict(dd)
    THEN \* d is a str: d.get raises AttributeError, d[k] = ... raises TypeError
         Raise(EitherError({IF IsDict(uu.kids[k]) THEN "AttributeError" ELSE "TypeError"
                            : k \in Keys(uu)}))
    ELSE LET r(k) == IF IsDict(uu.kids[k])
                     THEN update_nested(IF k \in Keys(dd) THEN dd.kids[k] ELSE EmptyDict,
                                        uu.kids[k])
                     ELSE uu.kids[k]
             failed == {k \in Keys(uu) : IsRaise(r(k))}
         IN IF failed # {}
            THEN Raise(EitherError(UNION {IF r(k).val = "AttributeError|TypeError"
                                          THEN {"AttributeError", "TypeError"}
                                          ELSE {r(k).val} : k \in failed}))
            ELSE PyDict([k \in Keys(dd) \cup Keys(uu) |->
                            IF k \in Keys(uu) THEN r(k) ELSE dd.kids[k]])

---------------------------------------------------------------------------
(* Nested maps used as inputs: built from at most MaxLeaves leaves *)

IsPrefix(p, q) == Len(p) <= Len(q) /\ SubSeq(q, 1, Len(p)) = p

Compatible(S, p) == \A l \in S : ~IsPrefix(l[1], p) /\ ~IsPrefix(p, l[1])

\* the sets of at most n leaves <<path, value>>, no path a prefix of another
RECURSIVE LeafSets(_, _, _)
LeafSets(paths, vals, n) ==
    IF n = 0 THEN {{}}
    ELSE LET prev == LeafSets(paths, vals, n - 1)
         IN prev \cup UNION {{S \cup {<<p, v>>} :
                                 p \in {q \in paths : Compatible(S, q)}, v \in vals}
                             : S \in prev}

\* the nested map holding exactly the leaves L
RECURSIVE MapOf(_)
MapOf(L) ==
    PyDict([k \in {l[1][1] : l \in L} |->
              IF \E l \in L : l[1] = <<k>>
              THEN (CHOOSE l \in L : l[1] = <<k>>)[2]
              ELSE MapOf({<<Tail(l[1]), l[2]>> : l \in {m \in L : m[1][1] = k}})])

NestedMaps(paths, vals) == {MapOf(L) : L \in LeafSets(paths, vals, MaxLeaves)}

\* the value at a path of keys, PyNone when the path leads nowhere
RECURSIVE ValueAt(_, _)
ValueAt(m, path) ==
    IF path = <<>> THEN m
    ELSE IF IsDict(m) /\ Head(path) \in Keys(m) THEN ValueAt(m.kids[Head(path)], Tail(path))
    ELSE PyNone

---------------------------------------------------------------------------
(* The merger on its own: update_nested(d, u) for generated d and u *)

MergePaths == {<<"a">>, <<"b">>, <<"a", "a">>, <<"a", "b">>, <<"b", "a">>, <<"b", "b">>}
MergeVals == {PyStr("1"), PyStr("2"), EmptyDict}
MergeMaps == NestedMaps(MergePaths, MergeVals)

NoSettings ==
    /\ args = Idle /\ disk = Idle /\ self = Idle /\ env_map = Idle
    /\ file_map = Idle /\ settings_map = Idle /\ io = <<>>

InitMerge ==
    /\ pc = "call"
    /\ d \in MergeMaps
    /\ u \in MergeMaps
    /\ ret = Idle
    /\ data = Idle /\ filters = Idle /\ parent_hierarchy = <<>>
    /\ environ = <<>> /\ call = Idle
    /\ NoSettings

CallUpdateNested ==
    /\ pc = "call"
    /\ pc' = "returned"
    /\ ret' = [out |-> update_nested(d, u), log |-> <<>>]
    /\ UNCHANGED <<data, filters, parent_hierarchy, d, u, environ, call, args, disk,
                   self, env_map, file_map, settings_map, io>>

NextMerge == CallUpdateNested

SpecMerge == InitMerge /\ [][NextMerge]_vars

\* C3: for every key k where u[k] is a nested map and d[k] is missing or a
\* string leaf, update_nested(d, u) returns normally and the result holds at k
\* a map with exactly the contents of u[k].
C3_NonMapDestTreatedAsEmpty ==
    pc = "returned" =>
        \A k \in Keys(u) :
            (IsDict(u.kids[k]) /\ (k \notin Keys(d) \/ IsStr(d.kids[k])))
                => /\ IsDict(ret.out)
                   /\ k \in Keys(ret.out)
                   /\ ret.out.kids[k] = u.kids[k]

---------------------------------------------------------------------------
(* subtree *)

\* a filter specification: None, a str, an int (neither str, Mapping nor
\* Iterable), a Mapping (items: its <<key, value>> pairs in iteration order) or
\* a list (items: its elements)
FNone == [tag |-> "None", val |-> "", items |-> <<>>]
FStr(s) == [tag |-> "str", val |-> s, items |-> <<>>]
FInt(s) == [tag |-> "int", val |-> s, items |-> <<>>]
FMap(items) == [tag |-> "Mapping", val |-> "", items |-> items]
FList(items) == [tag |-> "list", val |-> "", items |-> items]

\* Python truth value of a filter specification
Truthy(f) ==
    CASE f.tag = "None" -> FALSE
      [] f.tag = "str" -> f.val # ""
      [] f.tag = "int" -> f.val # "0"
      [] OTHER -> f.items # <<>>

RECURSIVE Join(_, _)
Join(parts, sep) ==
    IF parts = <<>> THEN ""
    ELSE IF Len(parts) = 1 THEN parts[1]
    ELSE parts[1] \o sep \o Join(Tail(parts), sep)

Ret(out, log) == [out |-> out, log |-> log]

\* the text of the warning of the KeyError handler
Warning(hierarchy, key) ==
    "Section " \o Join(hierarchy, ".") \o "." \o key \o " not found in data"

\* a KeyError handler that returns {} silently
MissingSection_silent(hierarchy, key) == Ret(EmptyDict, <<>>)

\* except KeyError: warn and return {}
MissingSection(hierarchy, key) == Ret(EmptyDict, <<Warning(hierarchy, key)>>)

\* not filters or filters == '*'
PassThrough(f) == ~Truthy(f) \/ f = FStr("*")

\* an update that keeps the entries new_data already has (setdefault)
dict_update_keep(new_data, subdata) ==
    IF IsDict(subdata)
    THEN PyDict([k \in Keys(new_data) \cup Keys(subdata) |->
                    IF k \in Keys(new_data) THEN new_data.kids[k] ELSE subdata.kids[k]])
    ELSE IF IsStr(subdata)
    THEN IF subdata.val = "" THEN new_data ELSE Raise("ValueError")
    ELSE Raise("TypeError")

\* new_data.update(subdata): dict.update with a mapping, or with an iterable of
\* pairs (a non-empty str yields one-character elements: ValueError)
dict_update(new_data, subdata) ==
    IF IsDict(subdata)
    THEN PyDict([k \in Keys(new_data) \cup Keys(subdata) |->
                    IF k \in Keys(subdata) THEN subdata.kids[k] ELSE new_data.kids[k]])
    ELSE IF IsStr(subdata)
    THEN IF subdata.val = "" THEN new_data ELSE Raise("ValueError")
    ELSE Raise("TypeError")

\* the hierarchy passed to the single-key selection subtree(data, k) of a
\* mapping filter: the call passes none, so the default () applies
RootHierarchy(hierarchy, k) == <<>>

RECURSIVE subtree(_, _, _)
RECURSIVE MappingLoop(_, _, _, _, _)
RECURSIVE ListLoop(_, _, _, _, _)

subtree(dat, f, hierarchy) ==
    IF PassThrough(f) THEN Ret(dat, <<>>)
    ELSE IF f.tag = "str"
    THEN IF IsDict(dat)
         THEN IF f.val \in Keys(dat)
              THEN Ret(dat.kids[f.val], <<>>)           \* deepcopy(data[key])
              ELSE MissingSection(hierarchy, f.val)
         ELSE Ret(Raise("TypeError"), <<>>)             \* data[key] on a non-mapping
    ELSE IF f.tag = "Mapping" THEN MappingLoop(dat, f.items, hierarchy, EmptyDict, <<>>)
    ELSE IF f.tag = "list" THEN ListLoop(dat, f.items, hierarchy, EmptyDict, <<>>)
    ELSE Ret(Raise("TypeError"), <<>>)

\* for k, v in filters.items(): ...
MappingLoop(dat, items, hierarchy, new_data, log) ==
    IF items = <<>> THEN Ret(new_data, log)
    ELSE LET k == items[1][1]
             v == items[1][2]
             subdata_root == subtree(dat, FStr(k), RootHierarchy(hierarchy, k))
             log1 == log \o subdata_root.log
         IN IF IsRaise(subdata_root.out) THEN Ret(subdata_root.out, log1)
            ELSE LET subdata == subtree(subdata_root.out, v, hierarchy \o <<k>>)
                     log2 == log1 \o subdata.log
                 IN IF IsRaise(subdata.out) THEN Ret(subdata.out, log2)
                    ELSE LET updated == dict_update(new_data, subdata.out)
                         IN IF IsRaise(updated) THEN Ret(updated, log2)
                            ELSE MappingLoop(dat, Tail(items), hierarchy, updated, log2)

\* for f in filters: ...
ListLoop(dat, items, hierarchy, new_data, log) ==
    IF items = <<>> THEN Ret(new_data, log)
    ELSE LET sub == subtree(dat, items[1], hierarchy)
             log1 == log \o sub.log
         IN IF IsRaise(sub.out) THEN Ret(sub.out, log1)
            ELSE LET updated == dict_update(new_data, sub.out)
                 IN IF IsRaise(updated) THEN Ret(updated, log1)
                    ELSE ListLoop(dat, Tail(items), hierarchy, updated, log1)

---------------------------------------------------------------------------
(* The filter on its own: subtree(data, filters, parent_hierarchy) *)

SubtreePaths ==
    {<<"a">>, <<"b">>,
     <<"a", "a">>, <<"a", "b">>, <<"b", "a">>, <<"b", "b">>,
     <<"a", "a", "a">>, <<"a", "a", "b">>, <<"a", "b", "a">>, <<"a", "b", "b">>,
     <<"b", "a", "a">>, <<"b", "a", "b">>, <<"b", "b", "a">>, <<"b", "b", "b">>}
SubtreeVals == {PyStr("v"), PyStr("")}
SubtreeData == NestedMaps(SubtreePaths, SubtreeVals)

SeqsUpTo(S, n) == UNION {[1..k -> S] : k \in 0..n}
DistinctKeys(items) == \A i, j \in 1..Len(items) : items[i][1] = items[j][1] => i = j

AtomFilters == {FNone, FStr(""), FStr("*"), FStr("a"), FStr("b"), FStr("c"), FInt("5")}
MappingFilters ==
    {FMap(items) : items \in {s \in SeqsUpTo({"a", "b", "c"} \X {FNone, FStr("b")},
                                             MaxFilterLen) : DistinctKeys(s)}}
ListFilters == {FList(items) : items \in SeqsUpTo({FStr("a"), FStr("b"), FStr("c")},
                                                  MaxFilterLen)}
Filters == AtomFilters \cup MappingFilters \cup ListFilters
Hierarchies == {<<>>, <<"settings">>}

InitSubtree ==
    /\ pc = "call"
    /\ data \in SubtreeData
    /\ filters = Idle /\ parent_hierarchy = <<>>
    /\ ret = Idle
    /\ d = Idle /\ u = Idle
    /\ environ = <<>> /\ call = Idle
    /\ NoSettings

CallSubtree ==
    /\ pc = "call"
    /\ \E f \in Filters, h \in Hierarchies :
        /\ filters' = f
        /\ parent_hierarchy' = h
        /\ ret' = subtree(data, f, h)
    /\ pc' = "returned"
    /\ UNCHANGED <<data, d, u, environ, call, args, disk, self, env_map, file_map,
                   settings_map, io>>

NextSubtree == CallSubtree

SpecSubtree == InitSubtree /\ [][NextSubtree]_vars

HasAB == /\ "a" \in Keys(data) /\ IsDict(data.kids["a"]) /\ "b" \in Keys(data.kids["a"])

\* C1: when data has key 'a' whose value is a map containing 'b',
\* subtree(data, {'a': 'b'}) returns, without raising,
\* {'a': subtree(data['a'], 'b')}.
C1_KeyedFilterWrapsUnderKey ==
    (pc = "returned" /\ filters = FMap(<<<<"a", FStr("b")>>>>) /\ HasAB)
        => ret.out = PyDict([k \in {"a"} |-> subtree(data.kids["a"], FStr("b"), <<>>).out])

\* the two-element collection filters [x, y] whose keys both select maps of data
TwoMaps(x, y) ==
    /\ pc = "returned"
    /\ filters = FList(<<FStr(x), FStr(y)>>)
    /\ x \in Keys(data) /\ IsDict(data.kids[x])
    /\ y \in Keys(data) /\ IsDict(data.kids[y])

\* C2 as stated: subtree(data, ['a', 'b']) equals
\* update_nested(subtree(data, 'a'), subtree(data, 'b')), the deep merge of
\* the two element results.
C2_CollectionIsDeepMerge ==
    \A x, y \in {"a", "b"} :
        LET merged == update_nested(subtree(data, FStr(x), <<>>).out,
                                    subtree(data, FStr(y), <<>>).out)
        IN (TwoMaps(x, y) /\ ~IsRaise(merged)) => ret.out = merged

\* C2 as amended: when data['a'] and data['b'] are both maps,
\* subtree(data, ['a', 'b']) returns the union of their top-level keys, each
\* key holding the whole value of data['b'] where data['b'] has it and of
\* data['a'] otherwise (no merge below the top level), with no warning.
C2_CollectionIsShallowUnion ==
    \A x, y \in {"a", "b"} :
        TwoMaps(x, y)
            => LET A == data.kids[x]
                   B == data.kids[y]
               IN /\ IsDict(ret.out)
                  /\ Keys(ret.out) = Keys(A) \cup Keys(B)
                  /\ \A k \in Keys(ret.out) :
                        ret.out.kids[k] = IF k \in Keys(B) THEN B.kids[k] ELSE A.kids[k]
                  /\ ret.log = <<>>

\* data['a'] and data['b'] share a key, with different values
C2_Witness ==
    /\ TwoMaps("a", "b")
    /\ \E k \in Keys(data.kids["a"]) \cap Keys(data.kids["b"]) :
          /\ data.kids["a"].kids[k] # data.kids["b"].kids[k]
          /\ ret.out.kids[k] = data.kids["b"].kids[k]

MissingKeyCall ==
    /\ pc = "returned"
    /\ filters.tag = "str"
    /\ filters.val \notin Keys(data)

\* C4 as stated: for every string key not present in data, subtree(data, key)
\* returns the empty map, emits exactly one warning and does not raise.
C4_MissingKeyGivesEmpty ==
    MissingKeyCall => (ret.out = EmptyDict /\ Len(ret.log) = 1)

\* C4 as amended: for every string key not present in data, other than the
\* empty string and '*', subtree(data, key) returns the empty map, emits
\* exactly one warning (naming the parent hierarchy and the key) and does not
\* raise.
C4_MissingNamedKeyGivesEmpty ==
    (MissingKeyCall /\ filters.val \notin {"", "*"})
        => /\ ret.out = EmptyDict
           /\ ret.log = <<Warning(parent_hierarchy, filters.val)>>

C4_Witness ==
    /\ MissingKeyCall /\ filters = FStr("c") /\ data # EmptyDict
    /\ ret.out = EmptyDict /\ Len(ret.log) = 1

Range(seq) == {seq[i] : i \in 1..Len(seq)}

\* C9: when subtree is called with a mapping filter and a non-empty parent
\* hierarchy P, the warning for a filter key k absent from data names the
\* dotted path P.k.
C9_WarningKeepsParentPath ==
    (pc = "returned" /\ filters.tag = "Mapping" /\ parent_hierarchy # <<>>
        /\ ~IsRaise(ret.out))
        => \A i \in 1..Len(filters.items) :
              LET k == filters.items[i][1]
              IN k \notin Keys(data)
                    => /\ Warning(parent_hierarchy, k) \in Range(ret.log)
                       /\ Warning(<<>>, k) \notin Range(ret.log)

---------------------------------------------------------------------------
(* Strings taken apart character by character *)

LowerChar(c) ==
    CASE c = "X" -> "x" [] c = "A" -> "a" [] c = "B" -> "b" [] c = "C" -> "c"
      [] c = "F" -> "f" [] OTHER -> c
UpperChar(c) ==
    CASE c = "x" -> "X" [] c = "a" -> "A" [] c = "b" -> "B" [] c = "c" -> "C"
      [] c = "f" -> "F" [] OTHER -> c

lower(str) == [i \in 1..Len(str) |-> LowerChar(str[i])]
upper(str) == [i \in 1..Len(str) |-> UpperChar(str[i])]

RECURSIVE rstrip(_, _)
rstrip(str, c) ==
    IF str # <<>> /\ str[Len(str)] = c THEN rstrip(SubSeq(str, 1, Len(str) - 1), c) ELSE str

RECURSIVE lstrip(_, _)
lstrip(str, c) == IF str # <<>> /\ Head(str) = c THEN lstrip(Tail(str), c) ELSE str

strip(str, c) == rstrip(lstrip(str, c), c)

startswith(str, prefix) == IsPrefix(prefix, str)

\* str.split(sep, maxsplit): at most maxsplit splits, all of them when maxsplit < 0
RECURSIVE split(_, _, _)
split(str, sep, maxsplit) ==
    IF maxsplit = 0 \/ sep \notin Range(str) THEN <<str>>
    ELSE LET i == CHOOSE j \in 1..Len(str) :
                      str[j] = sep /\ \A m \in 1..(j - 1) : str[m] # sep
         IN <<SubSeq(str, 1, i - 1)>> \o split(SubSeq(str, i + 1, Len(str)), sep, maxsplit - 1)

\* the string of a sequence of characters
RECURSIVE Str(_)
Str(chars) == IF chars = <<>> THEN "" ELSE Head(chars) \o Str(Tail(chars))

\* build_env_var(*parts): '_'.join(p.strip('_').upper() for p in parts)
RECURSIVE build_env_var(_)
build_env_var(parts) ==
    IF parts = <<>> THEN <<>>
    ELSE IF Len(parts) = 1 THEN upper(strip(parts[1], "_"))
    ELSE upper(strip(parts[1], "_")) \o <<"_">> \o build_env_var(Tail(parts))

---------------------------------------------------------------------------
(* parse_env_vars *)

\* env_prefix.lower().rstrip(split_char) + split_char
NormalPrefix(env_prefix, split_char) ==
    rstrip(lower(env_prefix), split_char) \o <<split_char>>

\* a decomposition that ignores max_depth
nested_keys_unbounded(env_var_lower, env_prefix, split_char, max_depth) ==
    split(SubSeq(env_var_lower, Len(env_prefix) + 1, Len(env_var_lower)), split_char, 0 - 1)

\* env_var_lower[len(env_prefix):].split(split_char, max_depth)
nested_keys(env_var_lower, env_prefix, split_char, max_depth) ==
    split(SubSeq(env_var_lower, Len(env_prefix) + 1, Len(env_var_lower)),
          split_char, max_depth)

\* the single-branch map update built from the keys and the value
RECURSIVE BuildUpdate(_, _)
BuildUpdate(keys, value) ==
    IF Len(keys) = 1 THEN PyDict([k \in {Str(keys[1])} |-> PyStr(value)])
    ELSE PyDict([k \in {Str(keys[1])} |-> BuildUpdate(Tail(keys), value)])

\* env_var_lower in exclude_set or not env_var_lower.startswith(env_prefix)
Skipped(env_var_lower, env_prefix, exclude_set) ==
    env_var_lower \in exclude_set \/ ~startswith(env_var_lower, env_prefix)

\* for env_var in os.environ: ...
RECURSIVE EnvLoop(_, _, _, _, _, _)
EnvLoop(env, acc, env_prefix, max_depth, split_char, exclude_set) ==
    IF env = <<>> THEN acc
    ELSE LET env_var_lower == lower(env[1].name)
         IN IF Skipped(env_var_lower, env_prefix, exclude_set)
            THEN EnvLoop(Tail(env), acc, env_prefix, max_depth, split_char, exclude_set)
            ELSE LET keys == nested_keys(env_var_lower, env_prefix, split_char, max_depth)
                 IN IF keys = <<>>
                    THEN EnvLoop(Tail(env), acc, env_prefix, max_depth, split_char,
                                 exclude_set)
                    ELSE LET merged == update_nested(acc, BuildUpdate(keys, env[1].value))
                         IN IF IsRaise(merged) THEN merged
                            ELSE EnvLoop(Tail(env), merged, env_prefix, max_depth,
                                         split_char, exclude_set)

parse_env_vars(env_prefix, max_depth, split_char, exclude, env) ==
    IF Len(split_char) # 1 THEN Raise("ValueError")
    ELSE LET sc == LowerChar(split_char[1])
             prefix == NormalPrefix(env_prefix, sc)
         IN IF Len(prefix) <= 1 THEN EmptyDict
            ELSE EnvLoop(env, EmptyDict, prefix, max_depth, sc,
                         {lower(x) : x \in exclude})

---------------------------------------------------------------------------
(* The decomposer on its own: parse_env_vars over a generated environment *)

EnvNames ==
    {<<"X", "_", "A">>, <<"x", "_", "a">>, <<"X", "_", "A", "_", "B">>,
     <<"X", "_", "A", "_", "B", "_", "C">>, <<"X", "_">>, <<"X", "A">>,
     <<"X", "_", "F">>}
EnvValues == {"1", "V"}

\* the environments of at most n variables over the names, in every order
Environments(names, values, n) ==
    {e \in SeqsUpTo([name : names, value : values], n) :
        \A i, j \in 1..Len(e) : e[i].name = e[j].name => i = j}

EnvPrefixes == {<<"X">>, <<"x", "_">>, <<>>}
SplitChars == {<<"_">>, <<"_", "_">>}
MaxDepths == {0, 1, 2}
Excludes == {{}, {<<"X", "_", "F">>}}

InitEnv ==
    /\ pc = "call"
    /\ environ \in Environments(EnvNames, EnvValues, MaxVars)
    /\ call = Idle
    /\ ret = Idle
    /\ data = Idle /\ filters = Idle /\ parent_hierarchy = <<>>
    /\ d = Idle /\ u = Idle
    /\ NoSettings

CallParseEnvVars ==
    /\ pc = "call"
    /\ \E p \in EnvPrefixes, md \in MaxDepths, sc \in SplitChars, ex \in Excludes :
        /\ call' = [env_prefix |-> p, max_depth |-> md, split_char |-> sc, exclude |-> ex]
        /\ ret' = [out |-> parse_env_vars(p, md, sc, ex, environ), log |-> <<>>]
    /\ pc' = "returned"
    /\ UNCHANGED <<data, filters, parent_hierarchy, d, u, environ, args, disk, self,
                   env_map, file_map, settings_map, io>>

NextEnv == CallParseEnvVars

SpecEnv == InitEnv /\ [][NextEnv]_vars

\* the call got as far as scanning the environment
Scanned ==
    /\ pc = "returned"
    /\ Len(call.split_char) = 1
    /\ Len(NormalPrefix(call.env_prefix, call.split_char[1])) > 1

ScanPrefix == NormalPrefix(call.env_prefix, call.split_char[1])

\* variable i of the environment e is one the scan decomposes
Matched(e, i) ==
    ~Skipped(lower(e[i].name), ScanPrefix, {lower(x) : x \in call.exclude})

Remainder(e, i) == SubSeq(lower(e[i].name), Len(ScanPrefix) + 1, Len(e[i].name))

PiecesOf(e, i) ==
    nested_keys(lower(e[i].name), ScanPrefix, call.split_char[1], call.max_depth)

KeyPath(e, i) == [j \in 1..Len(PiecesOf(e, i)) |-> Str(PiecesOf(e, i)[j])]

\* the pieces joined again with the split character
RECURSIVE Glue(_, _)
Glue(pieces, sep) ==
    IF Len(pieces) = 1 THEN pieces[1] ELSE pieces[1] \o <<sep>> \o Glue(Tail(pieces), sep)

\* C7: every variable that starts with the normalized prefix and is not
\* excluded is decomposed into at most max_depth + 1 pieces of its remainder:
\* the pieces joined with the split character give the remainder back, only the
\* last piece may hold a split character and only when max_depth + 1 pieces were
\* made, all pieces are lower case, and the returned map holds the variable's
\* raw value at the path of the pieces unless a later variable wrote at that
\* path or above it.
C7_DecomposesIntoNestedKeys ==
    Scanned =>
        \A i \in 1..Len(environ) :
            Matched(environ, i) =>
                LET ps == PiecesOf(environ, i)
                    sc == call.split_char[1]
                    n == Len(ps)
                IN /\ n >= 1 /\ n <= call.max_depth + 1
                   /\ Glue(ps, sc) = Remainder(environ, i)
                   /\ \A j \in 1..(n - 1) : sc \notin Range(ps[j])
                   /\ n < call.max_depth + 1 => sc \notin Range(ps[n])
                   /\ \A j \in 1..n : lower(ps[j]) = ps[j]
                   /\ (/\ IsDict(ret.out)
                       /\ \A m \in (i + 1)..Len(environ) :
                            Matched(environ, m)
                                => ~IsPrefix(KeyPath(environ, m), KeyPath(environ, i)))
                        => ValueAt(ret.out, KeyPath(environ, i)) = PyStr(environ[i].value)

\* prefix X, depth 1: X_A_B_C=V gives {'a': {'b_c': 'V'}}
C7_Witness ==
    /\ Scanned
    /\ call.env_prefix = <<"X">> /\ call.max_depth = 1
    /\ environ = <<[name |-> <<"X", "_", "A", "_", "B", "_", "C">>, value |-> "V"]>>
    /\ ret.out = PyDict([k \in {"a"} |-> PyDict([j \in {"b_c"} |-> PyStr("V")])])

\* the environment without the variables whose remainder is empty
RECURSIVE WithoutEmpty(_, _)
WithoutEmpty(e, i) ==
    IF i > Len(e) THEN <<>>
    ELSE (IF Matched(e, i) /\ Remainder(e, i) = <<>> THEN <<>> ELSE <<e[i]>>)
         \o WithoutEmpty(e, i + 1)

\* C8: a variable whose name is empty after the normalized prefix is skipped:
\* it contributes no key, in particular no empty-string key, so the result is
\* that of the environment without it.
C8_EmptyRemainderSkipped ==
    (Scanned /\ IsDict(ret.out))
        => /\ "" \notin Keys(ret.out)
           /\ ret.out = parse_env_vars(call.env_prefix, call.max_depth, call.split_char,
                                       call.exclude, WithoutEmpty(environ, 1))

Orders(e) ==
    {[i \in 1..Len(e) |-> e[f[i]]] :
        f \in {g \in [1..Len(e) -> 1..Len(e)] : \A i, j \in 1..Len(e) : g[i] = g[j] => i = j}}

\* C10: the result of parse_env_vars does not depend on the order in which the
\* environment is visited: for variables with distinct lower-cased names, every
\* order returns normally and returns the same map, also when one variable
\* names a leaf (X_A) and another a leaf below it (X_A_B).
C10_OrderIndependent ==
    (Scanned /\ \A i, j \in 1..Len(environ) :
                    lower(environ[i].name) = lower(environ[j].name) => i = j)
        => \A e \in Orders(environ) :
              LET other == parse_env_vars(call.env_prefix, call.max_depth,
                                          call.split_char, call.exclude, e)
              IN ~IsRaise(ret.out) /\ other = ret.out

---------------------------------------------------------------------------
(* Settings.__init__ and build_settings_map *)

\* a parser argument: None, a function, or an int (not callable)
WrapParser == [tag |-> "function", val |-> "wrap", kids |-> NoKids]
Callable(p) == p.tag = "function"
TruthyValue(v) ==
    CASE v.tag = "None" -> FALSE
      [] v.tag = "str" -> v.val # ""
      [] v.tag = "int" -> v.val # "0"
      [] v.tag = "dict" -> Keys(v) # {}
      [] OTHER -> TRUE

\* a constructor that accepts every parser
ParserRejected_never(parser) == FALSE

\* if parser and not callable(parser): raise TypeError
ParserRejected(parser) == TruthyValue(parser) /\ ~Callable(parser)

\* os.environ.get(name)
EnvironGet(env, name) ==
    IF \E i \in 1..Len(env) : env[i].name = name
    THEN PyStr(env[CHOOSE i \in 1..Len(env) : env[i].name = name].value)
    ELSE PyNone

\* Settings._read_file: {} without a settings file, else what the toml reader
\* yields (None when the text is neither a file nor inline toml)
read_file(settings_file, onDisk) ==
    IF TruthyValue(settings_file) THEN onDisk ELSE EmptyDict

\* a build that merges the environment over the file
MergeFile_under(map, fromFile) == update_nested(fromFile, map)

\* update_nested(settings_map, self.read_file())
MergeFile(map, fromFile) == update_nested(map, fromFile)

\* Settings.parse: the user's parser applied to the filtered map
parse(parser, m) ==
    IF TruthyValue(parser)
    THEN IF Callable(parser) THEN PyDict([k \in {"parsed"} |-> m]) ELSE Raise("TypeError")
    ELSE m

SettingsNames ==
    {<<"X", "_", "A">>, <<"X", "_", "A", "_", "B">>, <<"X", "_", "B">>, <<"X", "_", "F">>}
SettingsValues == {"1"}
FilePaths == {<<"a">>, <<"b">>, <<"a", "a">>, <<"a", "b">>, <<"b", "a">>, <<"b", "b">>}
FileVals == {PyStr("2"), EmptyDict}
DiskOutcomes == NestedMaps(FilePaths, FileVals) \cup {PyNone}
SettingsFilters == {FNone, FStr("a"), FMap(<<<<"a", FNone>>>>)}
Parsers == {PyNone, WrapParser, PyInt("5"), PyInt("0")}

Init ==
    /\ pc = "new"
    /\ args \in [settings_file : {PyNone, PyStr("conf")},
                 env_prefix : {<<"x", "_">>},
                 settings_file_env_suffix : {<<"f">>},
                 filters : SettingsFilters,
                 parser : Parsers]
    /\ environ \in Environments(SettingsNames, SettingsValues, MaxVars)
    /\ disk \in DiskOutcomes
    /\ self = Idle /\ env_map = Idle /\ file_map = Idle /\ settings_map = Idle
    /\ io = <<>>
    /\ ret = Idle
    /\ data = Idle /\ filters = Idle /\ parent_hierarchy = <<>>
    /\ d = Idle /\ u = Idle /\ call = Idle

Raised(e, where, log) == [out |-> Raise(e), log |-> log, at |-> where]

Unused == <<data, filters, parent_hierarchy, d, u, call>>

\* __init__ up to the call of build_settings_map
InitFields ==
    /\ pc = "new"
    /\ IF ParserRejected(args.parser)
       THEN /\ pc' = "raised"
            /\ ret' = Raised("TypeError", "parser", <<>>)
            /\ UNCHANGED <<self, io>>
       ELSE LET prefix == build_env_var(<<args.env_prefix>>)
                var == build_env_var(<<prefix, args.settings_file_env_suffix>>)
                given == TruthyValue(args.settings_file)
            IN /\ self' = [_parse |-> args.parser,
                           filters |-> args.filters,
                           env_prefix |-> prefix,
                           settings_file_env_suffix |-> args.settings_file_env_suffix,
                           settings_file_env_var |-> var,
                           settings_file |-> IF given THEN args.settings_file
                                             ELSE EnvironGet(environ, var),
                           _data |-> PyNone]
               /\ io' = IF given THEN io ELSE Append(io, "environ.get")
               /\ pc' = "fields"
               /\ UNCHANGED ret
    /\ UNCHANGED <<args, environ, disk, env_map, file_map, settings_map>>
    /\ UNCHANGED Unused

\* settings_map = {}; update_nested(settings_map, self.parse_env_vars())
MergeEnv ==
    /\ pc = "fields"
    /\ LET parsed == parse_env_vars(self.env_prefix, 1, <<"_">>,
                                    {self.settings_file_env_var}, environ)
           merged == update_nested(EmptyDict, parsed)
       IN /\ io' = Append(io, "environ.scan")
          /\ env_map' = parsed
          /\ IF IsRaise(parsed)
             THEN /\ pc' = "raised" /\ ret' = Raised(parsed.val, "env", <<>>)
                  /\ UNCHANGED settings_map
             ELSE /\ pc' = "env_merged" /\ settings_map' = merged /\ UNCHANGED ret
    /\ UNCHANGED <<args, environ, disk, self, file_map>>
    /\ UNCHANGED Unused

\* update_nested(settings_map, self.read_file())
MergeFileStep ==
    /\ pc = "env_merged"
    /\ LET fromFile == read_file(self.settings_file, disk)
           merged == MergeFile(settings_map, fromFile)
       IN /\ io' = IF TruthyValue(self.settings_file) THEN Append(io, "file.read") ELSE io
          /\ file_map' = fromFile
          /\ IF IsRaise(merged)
             THEN /\ pc' = "raised" /\ ret' = Raised(merged.val, "file", <<>>)
                  /\ UNCHANGED settings_map
             ELSE /\ pc' = "file_merged" /\ settings_map' = merged /\ UNCHANGED ret
    /\ UNCHANGED <<args, environ, disk, self, env_map>>
    /\ UNCHANGED Unused

\* settings_map = self.subtree(settings_map)
FilterStep ==
    /\ pc = "file_merged"
    /\ LET r == subtree(settings_map, self.filters, <<"settings">>)
       IN IF IsRaise(r.out)
          THEN /\ pc' = "raised" /\ ret' = Raised(r.out.val, "subtree", r.log)
               /\ UNCHANGED settings_map
          ELSE /\ pc' = "filtered" /\ settings_map' = r.out
               /\ ret' = [out |-> PyNone, log |-> r.log, at |-> "subtree"]
    /\ UNCHANGED <<args, environ, disk, self, env_map, file_map, io>>
    /\ UNCHANGED Unused

\* self._data = self.parse(settings_map)
ParseStep ==
    /\ pc = "filtered"
    /\ LET r == parse(self._parse, settings_map)
       IN /\ io' = IF TruthyValue(self._parse) THEN Append(io, "parser.call") ELSE io
          /\ IF IsRaise(r)
             THEN /\ pc' = "raised" /\ ret' = Raised(r.val, "parse", ret.log)
                  /\ UNCHANGED self
             ELSE /\ pc' = "done" /\ self' = [self EXCEPT !._data = r] /\ UNCHANGED ret
    /\ UNCHANGED <<args, environ, disk, env_map, file_map, settings_map>>
    /\ UNCHANGED Unused

Next == InitFields \/ MergeEnv \/ MergeFileStep \/ FilterStep \/ ParseStep

Spec == Init /\ [][Next]_vars

\* construction failed on the parser check, having read nothing
FailedBeforeReading ==
    /\ pc \in {"new", "raised"}
    /\ io = <<>>
    /\ pc = "raised" => (ret.out = Raise("TypeError") /\ ret.at = "parser")

\* C5 as stated: constructing Settings with any provided parser that is not
\* callable fails with a type error before any environment variable and any
\* settings file is read.
C5_NonCallableParserRejected ==
    (args.parser # PyNone /\ ~Callable(args.parser)) => FailedBeforeReading

\* C5 as amended: constructing Settings with any truthy parser that is not
\* callable fails with a type error before any environment variable and any
\* settings file is read (a falsy one, such as 0, is taken as no parser).
C5_TruthyNonCallableParserRejected ==
    (TruthyValue(args.parser) /\ ~Callable(args.parser)) => FailedBeforeReading

C5_Witness ==
    /\ args.parser = PyInt("5")
    /\ pc = "raised" /\ ret.out = Raise("TypeError") /\ io = <<>>
    /\ environ # <<>> /\ args.settings_file # PyNone

\* every path of keys into a nested map
RECURSIVE PathsOf(_)
PathsOf(m) ==
    IF ~IsDict(m) THEN {}
    ELSE UNION {{<<k>>} \cup {<<k>> \o q : q \in PathsOf(m.kids[k])} : k \in Keys(m)}

LeafPaths(m) == {q \in PathsOf(m) : IsStr(ValueAt(m, q))}

\* C6 as stated: the environment map is merged first and the file map second,
\* so every path that is a leaf in both holds the file's value in the merged
\* (pre-filter) map and every leaf present in only one of the two maps keeps
\* its value.
C6_FileOverridesAndLeavesKept ==
    pc = "file_merged" =>
        /\ \A q \in LeafPaths(env_map) \cap LeafPaths(file_map) :
              ValueAt(settings_map, q) = ValueAt(file_map, q)
        /\ \A q \in LeafPaths(env_map) \ LeafPaths(file_map) :
              ValueAt(settings_map, q) = ValueAt(env_map, q)
        /\ \A q \in LeafPaths(file_map) \ LeafPaths(env_map) :
              ValueAt(settings_map, q) = ValueAt(file_map, q)

\* the environment map has a leaf where the file map has a non-empty map
LeafUnderFileMap ==
    \E q \in LeafPaths(env_map) :
        IsDict(ValueAt(file_map, q)) /\ Keys(ValueAt(file_map, q)) # {}

\* the merge of the file map was attempted, the file map being a map
FileMergeTried ==
    /\ pc = "file_merged" \/ (pc = "raised" /\ ret.at = "file")
    /\ IsDict(file_map)

\* C6 as amended: the environment map is merged first and the file map second.
\* The merge raises exactly when the environment map has a leaf where the file
\* map has a non-empty map. Otherwise, in the merged (pre-filter) map, every
\* leaf of the file map keeps its value (so a path that is a leaf in both holds
\* the file's value), and every leaf of the environment map keeps its value
\* unless the file map has a leaf at its path or at a prefix of its path.
C6_FileOverridesEnv ==
    FileMergeTried =>
        /\ pc = "raised" <=> LeafUnderFileMap
        /\ pc = "file_merged" =>
            /\ \A q \in LeafPaths(file_map) :
                  ValueAt(settings_map, q) = ValueAt(file_map, q)
            /\ \A q \in LeafPaths(env_map) :
                  (\A n \in 1..Len(q) : ~IsStr(ValueAt(file_map, SubSeq(q, 1, n))))
                      => ValueAt(settings_map, q) = ValueAt(env_map, q)

\* a path is a leaf in both maps, another leaf is only in the environment map
C6_Witness ==
    /\ pc = "file_merged"
    /\ \E q \in LeafPaths(env_map) \cap LeafPaths(file_map) :
          /\ ValueAt(env_map, q) # ValueAt(file_map, q)
          /\ ValueAt(settings_map, q) = ValueAt(file_map, q)
    /\ \E q \in LeafPaths(env_map) \ LeafPaths(file_map) :
          ValueAt(settings_map, q) = ValueAt(env_map, q)

====
